---- MODULE Spec2Model ----
(***************************************************************************)
(* Model of nvidia-mon.py: the polling loop of main() and the idle-window  *)
(* shutdown decision of check_shutdown().                                   *)
(*                                                                         *)
(* Time is counted in clock units; a day has DayLen units.  A datetime     *)
(* (dt.now(), planned_shut) is a natural number, its time of day           *)
(* (datetime.time()) is the number modulo DayLen.  Percentages are counted *)
(* in levels 0..MaxPercent; the --shutdown pattern admits one digit less   *)
(* than the sampled usage can reach (\d{1,2} against 0..100), so the idle  *)
(* percent ranges over 0..MaxPercent-1.                                    *)
(***************************************************************************)
EXTENDS Integers, Sequences, FiniteSets, TLC

\* ---- bounds of the model ----
DayLen == 4
Days == 2
MaxDur == 2
MaxPercent == 1
MaxStep == 2
MaxSuspends == 2

MaxClock == Days * DayLen - 1

\* Python's None for will_shut / planned_shut (datetimes are >= 0)
None == -1

\* Python's None for shut_args (--shutdown '')
NoShutArgs == [start |-> None, end |-> None, idle_duration |-> None, idle_percent |-> None]

\* the dicts parse_args builds from a matching --shutdown argument
ShutArgsSet == [start : 0 .. DayLen - 1, end : 0 .. DayLen - 1,
                idle_duration : 0 .. MaxDur, idle_percent : 0 .. MaxPercent - 1]

\* values of the --shutdown argument: empty, not matching the pattern, or matching
ArgvShutdown == {[kind |-> "empty", sa |-> NoShutArgs], [kind |-> "garbage", sa |-> NoShutArgs]}
                \cup {[kind |-> "spec", sa |-> sa] : sa \in ShutArgsSet}

VARIABLES pc, argv_shutdown, shut_args, will_shut, clock, data_gpu,
          nvml_ok, exc, exit_status,
          inits, teardowns, suspends, loop_reached,
          last, prev, armed_at, ep_suspends, arm_suspends, fired_prev,
          tick, first_exc, exc_at, since_fire, stderr

vars == <<pc, argv_shutdown, shut_args, will_shut, clock, data_gpu,
          nvml_ok, exc, exit_status,
          inits, teardowns, suspends, loop_reached,
          last, prev, armed_at, ep_suspends, arm_suspends, fired_prev,
          tick, first_exc, exc_at, since_fire, stderr>>

\* ---- datetime helpers ----
\* datetime.time(): the time of day of a datetime
TimeOfDay(now_full) == now_full % DayLen

\* ---- check_shutdown ----
\* line 108
gpu_busy(sa, gpu_usage) == gpu_usage > sa.idle_percent

\* mutant of outside_range1: the comparisons admit the two ends of the window
outside_range1_inclusive(sa, now) ==
    sa.start < sa.end /\ ~(sa.start <= now /\ now <= sa.end)

\* mutant of outside_range1: the branch is also taken when start = end
outside_range1_equal_ends(sa, now) ==
    sa.start <= sa.end /\ ~(sa.start < now /\ now < sa.end)

\* lines 115-116
outside_range1(sa, now) ==
    sa.start < sa.end /\ ~(sa.start < now /\ now < sa.end)

\* mutant of outside_range2: or in place of and
outside_range2_or(sa, now) ==
    sa.start > sa.end /\ (now < sa.start \/ now > sa.end)

\* mutant of outside_range2: start and end exchanged
outside_range2_swapped(sa, now) ==
    sa.start > sa.end /\ (now < sa.end /\ now > sa.start)

\* lines 121-122
outside_range2(sa, now) ==
    sa.start > sa.end /\ (now < sa.start /\ now > sa.end)

\* mutant of idle_deadline: the idle duration is not added
idle_deadline_now(sa, now_full) == now_full

\* line 132
idle_deadline(sa, now_full) == now_full + sa.idle_duration

\* mutant of still_waiting: the planned time itself still counts as waiting
still_waiting_inclusive(now_full, planned_shut) == now_full <= planned_shut

\* mutant of still_waiting: the comparison is turned round
still_waiting_reversed(now_full, planned_shut) == now_full > planned_shut

\* line 133
still_waiting(now_full, planned_shut) == now_full < planned_shut

\* mutant of aborted: the planned shutdown is returned instead of None
aborted_keeps_planned(planned_shut, debug_msg, info_msg) ==
    [ret |-> planned_shut, suspends |-> 0, raised |-> "none", call |-> "none",
     log |-> <<<<"debug", debug_msg>>>> \o
             (IF planned_shut # None THEN <<<<"info", info_msg>>>> ELSE <<>>)]

\* mutant of aborted: the notice is logged whatever the prior state
aborted_always_notifies(planned_shut, debug_msg, info_msg) ==
    [ret |-> None, suspends |-> 0, raised |-> "none", call |-> "none",
     log |-> <<<<"debug", debug_msg>>, <<"info", info_msg>>>>]

\* lines 110-112, 118-120, 124-126: the abort notice and the returned None
aborted(planned_shut, debug_msg, info_msg) ==
    [ret |-> None, suspends |-> 0, raised |-> "none", call |-> "none",
     log |-> <<<<"debug", debug_msg>>>> \o
             (IF planned_shut # None THEN <<<<"info", info_msg>>>> ELSE <<>>)]

\* mutant of waiting_return: the return statement is missing
waiting_return_none(planned_shut) == None

\* line 136
waiting_return(planned_shut) == planned_shut

\* mutant of fired_return: the planned time is returned after the shutdown
fired_return_keeps_planned(planned_shut) == planned_shut

\* lines 138-140 fall off the end of the function: the call returns None
fired_return(planned_shut) == None

\* lines 143-144: call(['systemctl', 'suspend']); its result is dropped,
\* an OSError (command cannot be started) propagates
CallResults == {"ok", "nonzero", "oserror"}

do_shutdown(call_result) == IF call_result = "oserror" THEN "OSError" ELSE "none"

\* lines 105-140; now_full is the value of dt.now() read at line 113
check_shutdown(sa, gpu_usage, planned_shut, now_full, call_result) ==
    LET now == TimeOfDay(now_full) IN
    IF gpu_busy(sa, gpu_usage)
    THEN aborted(planned_shut, "no shutdown, gpu busy",
                 "GPU now busy again, shutdown aborted")
    ELSE IF outside_range1(sa, now)
    THEN aborted(planned_shut, "no shutdown, outside range1",
                 "time now outside range1, shutdown aborted")
    ELSE IF outside_range2(sa, now)
    THEN aborted(planned_shut, "no shutdown, outside range2",
                 "time now outside range2, shutdown aborted")
    ELSE IF planned_shut = None
    THEN [ret |-> idle_deadline(sa, now_full), suspends |-> 0, raised |-> "none",
          call |-> "none",
          log |-> <<<<"info", "GPU now idle, will shutdown if this stays">>>>]
    ELSE IF still_waiting(now_full, planned_shut)
    THEN [ret |-> waiting_return(planned_shut), suspends |-> 0, raised |-> "none",
          call |-> "none",
          log |-> <<<<"debug", "no shutdown, time left">>>>]
    ELSE [ret |-> fired_return(planned_shut), suspends |-> 1,
          raised |-> do_shutdown(call_result), call |-> call_result,
          log |-> <<<<"warning", "been idle long enough, shutting down now">>>>]

\* ---- record of a check_shutdown call (history) ----
\* call: the outcome of the suspend command when the call ran it;
\* after_fire: the call before this one invoked the suspend action;
\* prev_fire: the time elapsed since the latest suspend before this call, as
\* far as it is below idle_duration (None when there was no suspend)
NoCall == [called |-> FALSE, sa |-> NoShutArgs, gpu_usage |-> 0, now_full |-> 0,
           planned |-> None, ret |-> None, suspends |-> 0, raised |-> "none",
           call |-> "none", log |-> <<>>, after_fire |-> FALSE, prev_fire |-> None]

CallRecord(sa, gpu_usage, planned_shut, now_full, r, after, prev_fire) ==
    [called |-> TRUE, sa |-> sa, gpu_usage |-> gpu_usage, now_full |-> now_full,
     planned |-> planned_shut, ret |-> r.ret, suspends |-> r.suspends,
     raised |-> r.raised, call |-> r.call, log |-> r.log, after_fire |-> after,
     prev_fire |-> prev_fire]


\* ---- what the claims mean by idle and by the window ----
\* the sample is at or below the idle threshold
IsIdle(sa, gpu_usage) == gpu_usage <= sa.idle_percent

\* a time of day lies inside the daily window: strictly between start and
\* end for a non-wrapping window, everything but the open gap between end and
\* start for a wrapping one, every time of day when start = end
InWindow(sa, now) ==
    IF sa.start < sa.end THEN sa.start < now /\ now < sa.end
    ELSE IF sa.start > sa.end THEN ~(sa.end < now /\ now < sa.start)
    ELSE TRUE

\* a tick of an idle episode: idle sample at a time inside the window
IdleTick(sa, gpu_usage, now_full) ==
    IsIdle(sa, gpu_usage) /\ InWindow(sa, TimeOfDay(now_full))

\* ---- main ----
\* the time elapsed since the latest suspend after d more clock units, kept
\* only as far as it is below the idle duration
Elapsed(since, d, idle_duration) ==
    IF since = None THEN None
    ELSE IF since + d >= idle_duration THEN idle_duration ELSE since + d

\* what the current tick has done so far: calls of check_shutdown (line 170),
\* of print_data (line 172) and of sleep (line 173)
NoTick == [evals |-> 0, prints |-> 0, sleeps |-> 0]

TryPcs == {"init", "count", "handle", "query", "policy", "print", "sleep"}
TickPcs == {"handle", "query", "policy", "print", "sleep"}

Init ==
    /\ pc = "parse"
    /\ argv_shutdown \in ArgvShutdown
    /\ shut_args = NoShutArgs
    /\ will_shut = None
    /\ clock \in 0 .. DayLen - 1
    /\ data_gpu = 0
    /\ nvml_ok = FALSE
    /\ exc = "none"
    /\ exit_status = None
    /\ inits = 0
    /\ teardowns = 0
    /\ suspends = 0
    /\ loop_reached = FALSE
    /\ last = NoCall
    /\ prev = NoCall
    /\ armed_at = None
    /\ ep_suspends = 0
    /\ arm_suspends = 0
    /\ fired_prev = FALSE
    /\ tick = NoTick
    /\ first_exc = "none"
    /\ exc_at = "none"
    /\ since_fire = None
    /\ stderr = <<>>

\* lines 59-77: the shut_args parse_args returns for a --shutdown value
\* that is empty or matches the pattern
parse_args(argv) == IF argv.kind = "empty" THEN NoShutArgs ELSE argv.sa

\* line 149 with lines 60, 66-77, then lines 150-158
ParseArgs ==
    /\ pc = "parse"
    /\ argv_shutdown.kind # "garbage"
    /\ shut_args' = parse_args(argv_shutdown)
    /\ pc' = "init"
    /\ UNCHANGED <<argv_shutdown, will_shut, clock, data_gpu, nvml_ok, exc,
                   exit_status, inits, teardowns, suspends, loop_reached,
                   last, prev, armed_at, ep_suspends, arm_suspends, fired_prev,
                   tick, first_exc, exc_at, since_fire, stderr>>

\* line 149 with lines 62-65: parse_args returns the int 2, which main
\* cannot unpack into (args, shut_args): TypeError before the try block
ParseArgsFails ==
    /\ pc = "parse"
    /\ argv_shutdown.kind = "garbage"
    /\ exc' = "TypeError"
    /\ exit_status' = 1
    /\ pc' = "raised"
    /\ first_exc' = "TypeError"
    /\ exc_at' = "parse"
    /\ stderr' = Append(stderr, "failed to parse shutdown args")
    /\ UNCHANGED <<argv_shutdown, shut_args, will_shut, clock, data_gpu, nvml_ok,
                   inits, teardowns, suspends, loop_reached,
                   last, prev, armed_at, ep_suspends, arm_suspends, fired_prev,
                   tick, since_fire>>

\* line 162
NvmlInit ==
    /\ pc = "init"
    /\ inits' = inits + 1
    /\ nvml_ok' = TRUE
    /\ pc' = "count"
    /\ UNCHANGED <<argv_shutdown, shut_args, will_shut, clock, data_gpu, exc,
                   exit_status, teardowns, suspends, loop_reached,
                   last, prev, armed_at, ep_suspends, arm_suspends, fired_prev,
                   tick, first_exc, exc_at, since_fire, stderr>>

\* line 162 raising NVMLError: control goes to the finally clause
NvmlInitFails ==
    /\ pc = "init"
    /\ inits' = inits + 1
    /\ exc' = "NVMLError"
    /\ pc' = "finally"
    /\ first_exc' = "NVMLError"
    /\ exc_at' = "init"
    /\ UNCHANGED <<argv_shutdown, shut_args, will_shut, clock, data_gpu, nvml_ok,
                   exit_status, teardowns, suspends, loop_reached,
                   last, prev, armed_at, ep_suspends, arm_suspends, fired_prev,
                   tick, since_fire, stderr>>

\* lines 163-164
NvmlDeviceGetCount ==
    /\ pc = "count"
    /\ pc' = "handle"
    /\ UNCHANGED <<argv_shutdown, shut_args, will_shut, clock, data_gpu, nvml_ok,
                   exc, exit_status, inits, teardowns, suspends, loop_reached,
                   last, prev, armed_at, ep_suspends, arm_suspends, fired_prev,
                   tick, first_exc, exc_at, since_fire, stderr>>

\* line 163 raising NVMLError
NvmlDeviceGetCountFails ==
    /\ pc = "count"
    /\ exc' = "NVMLError"
    /\ pc' = "finally"
    /\ first_exc' = "NVMLError"
    /\ exc_at' = "count"
    /\ UNCHANGED <<argv_shutdown, shut_args, will_shut, clock, data_gpu, nvml_ok,
                   exit_status, inits, teardowns, suspends, loop_reached,
                   last, prev, armed_at, ep_suspends, arm_suspends, fired_prev,
                   tick, since_fire, stderr>>

\* line 166: the tick begins
NvmlDeviceGetHandleByIndex ==
    /\ pc = "handle"
    /\ loop_reached' = TRUE
    /\ pc' = "query"
    /\ tick' = NoTick
    /\ UNCHANGED <<argv_shutdown, shut_args, will_shut, clock, data_gpu, nvml_ok,
                   exc, exit_status, inits, teardowns, suspends,
                   last, prev, armed_at, ep_suspends, arm_suspends, fired_prev,
                   first_exc, exc_at, since_fire, stderr>>

\* line 166 raising NVMLError
NvmlDeviceGetHandleByIndexFails ==
    /\ pc = "handle"
    /\ loop_reached' = TRUE
    /\ exc' = "NVMLError"
    /\ pc' = "finally"
    /\ tick' = NoTick
    /\ first_exc' = "NVMLError"
    /\ exc_at' = "handle"
    /\ UNCHANGED <<argv_shutdown, shut_args, will_shut, clock, data_gpu, nvml_ok,
                   exit_status, inits, teardowns, suspends,
                   last, prev, armed_at, ep_suspends, arm_suspends, fired_prev,
                   since_fire, stderr>>

\* mutant of GetData: check_shutdown is called without the test of shut_args
GetData_always_checks ==
    /\ pc = "query"
    /\ \E gpu \in 0 .. MaxPercent : data_gpu' = gpu
    /\ pc' = "policy"
    /\ UNCHANGED <<argv_shutdown, shut_args, will_shut, clock, nvml_ok,
                   exc, exit_status, inits, teardowns, suspends, loop_reached,
                   last, prev, armed_at, ep_suspends, arm_suspends, fired_prev,
                   tick, first_exc, exc_at, since_fire, stderr>>

\* lines 167-169: get_data (lines 80-92) and the test of shut_args
GetData ==
    /\ pc = "query"
    /\ \E gpu \in 0 .. MaxPercent : data_gpu' = gpu
    /\ pc' = IF shut_args # NoShutArgs THEN "policy" ELSE "print"
    /\ UNCHANGED <<argv_shutdown, shut_args, will_shut, clock, nvml_ok,
                   exc, exit_status, inits, teardowns, suspends, loop_reached,
                   last, prev, armed_at, ep_suspends, arm_suspends, fired_prev,
                   tick, first_exc, exc_at, since_fire, stderr>>

\* mutant of GetDataFails: the error is caught and the tick goes on
GetDataFails_caught ==
    /\ pc = "query"
    /\ exc' = "NVMLError"
    /\ pc' = "print"
    /\ first_exc' = "NVMLError"
    /\ exc_at' = "query"
    /\ UNCHANGED <<argv_shutdown, shut_args, will_shut, clock, data_gpu, nvml_ok,
                   exit_status, inits, teardowns, suspends, loop_reached,
                   last, prev, armed_at, ep_suspends, arm_suspends, fired_prev,
                   tick, since_fire, stderr>>

\* lines 87-89 raising NVMLError
GetDataFails ==
    /\ pc = "query"
    /\ exc' = "NVMLError"
    /\ pc' = "finally"
    /\ first_exc' = "NVMLError"
    /\ exc_at' = "query"
    /\ UNCHANGED <<argv_shutdown, shut_args, will_shut, clock, data_gpu, nvml_ok,
                   exit_status, inits, teardowns, suspends, loop_reached,
                   last, prev, armed_at, ep_suspends, arm_suspends, fired_prev,
                   tick, since_fire, stderr>>

\* lines 170-171: will_shut = check_shutdown(...); an OSError of do_shutdown
\* leaves will_shut unassigned and goes to the finally clause
CheckShutdown ==
    /\ pc = "policy"
    /\ suspends < MaxSuspends
    /\ \E call_result \in CallResults :
         LET r == check_shutdown(shut_args, data_gpu, will_shut, clock, call_result)
             idle == IdleTick(shut_args, data_gpu, clock)
         IN /\ will_shut' = IF r.raised = "none" THEN r.ret ELSE will_shut
            /\ exc' = r.raised
            /\ pc' = IF r.raised = "none" THEN "print" ELSE "finally"
            /\ suspends' = suspends + r.suspends
            /\ last' = CallRecord(shut_args, data_gpu, will_shut, clock, r, fired_prev, since_fire)
            /\ fired_prev' = (r.suspends > 0)
            /\ since_fire' = IF r.suspends > 0 THEN 0 ELSE since_fire
            /\ first_exc' = r.raised
            /\ exc_at' = IF r.raised = "none" THEN "none" ELSE "policy"
            /\ armed_at' = IF ~idle THEN None
                           ELSE IF will_shut = None THEN clock ELSE armed_at
            /\ ep_suspends' = IF idle THEN ep_suspends + r.suspends ELSE 0
            /\ arm_suspends' = IF idle /\ will_shut = None THEN 0
                               ELSE arm_suspends + r.suspends
    /\ tick' = [tick EXCEPT !.evals = @ + 1]
    /\ UNCHANGED <<argv_shutdown, shut_args, clock, data_gpu, nvml_ok,
                   exit_status, inits, teardowns, loop_reached, prev, stderr>>

\* line 172
PrintData ==
    /\ pc = "print"
    /\ pc' = "sleep"
    /\ tick' = [tick EXCEPT !.prints = @ + 1]
    /\ UNCHANGED <<argv_shutdown, shut_args, will_shut, clock, data_gpu, nvml_ok,
                   exc, exit_status, inits, teardowns, suspends, loop_reached,
                   last, prev, armed_at, ep_suspends, arm_suspends, fired_prev,
                   first_exc, exc_at, since_fire, stderr>>

\* line 173: the wall clock moves on while the process sleeps (or the
\* machine is suspended)
Sleep ==
    /\ pc = "sleep"
    /\ \E d \in 0 .. MaxStep :
         /\ clock + d <= MaxClock
         /\ clock' = clock + d
         /\ since_fire' = Elapsed(since_fire, d, shut_args.idle_duration)
    /\ last' = NoCall
    /\ pc' = "handle"
    /\ tick' = [tick EXCEPT !.sleeps = @ + 1]
    /\ UNCHANGED <<argv_shutdown, shut_args, will_shut, data_gpu, nvml_ok,
                   exc, exit_status, inits, teardowns, suspends, loop_reached,
                   prev, armed_at, ep_suspends, arm_suspends, fired_prev,
                   first_exc, exc_at, stderr>>

\* mutant of Interrupt: the exception leaves main without the finally clause
Interrupt_no_finally ==
    /\ pc \in TryPcs
    /\ exc' = "KeyboardInterrupt"
    /\ exit_status' = 1
    /\ pc' = "raised"
    /\ first_exc' = "KeyboardInterrupt"
    /\ exc_at' = pc
    /\ UNCHANGED <<argv_shutdown, shut_args, will_shut, clock, data_gpu, nvml_ok,
                   inits, teardowns, suspends, loop_reached,
                   last, prev, armed_at, ep_suspends, arm_suspends, fired_prev,
                   tick, since_fire, stderr>>

\* KeyboardInterrupt raised inside the try block (lines 160-173)
Interrupt ==
    /\ pc \in TryPcs
    /\ exc' = "KeyboardInterrupt"
    /\ pc' = "finally"
    /\ first_exc' = "KeyboardInterrupt"
    /\ exc_at' = pc
    /\ UNCHANGED <<argv_shutdown, shut_args, will_shut, clock, data_gpu, nvml_ok,
                   exit_status, inits, teardowns, suspends, loop_reached,
                   last, prev, armed_at, ep_suspends, arm_suspends, fired_prev,
                   tick, since_fire, stderr>>

\* lines 176-178 on an initialised session: nvmlShutdown returns and the
\* pending exception propagates out of main (lines 174-175)
NvmlShutdown ==
    /\ pc = "finally"
    /\ nvml_ok
    /\ teardowns' = teardowns + 1
    /\ nvml_ok' = FALSE
    /\ exit_status' = 1
    /\ pc' = "raised"
    /\ UNCHANGED <<argv_shutdown, shut_args, will_shut, clock, data_gpu,
                   exc, inits, suspends, loop_reached,
                   last, prev, armed_at, ep_suspends, arm_suspends, fired_prev,
                   tick, first_exc, exc_at, since_fire, stderr>>

\* lines 176-178 after nvmlInit failed: nvmlShutdown is called all the same
\* and raises NVMLError (uninitialised), which replaces the pending exception
NvmlShutdownFails ==
    /\ pc = "finally"
    /\ ~nvml_ok
    /\ teardowns' = teardowns + 1
    /\ exc' = "NVMLError_Uninitialized"
    /\ exit_status' = 1
    /\ pc' = "raised"
    /\ UNCHANGED <<argv_shutdown, shut_args, will_shut, clock, data_gpu, nvml_ok,
                   inits, suspends, loop_reached,
                   last, prev, armed_at, ep_suspends, arm_suspends, fired_prev,
                   tick, first_exc, exc_at, since_fire, stderr>>

Next ==
    \/ ParseArgs
    \/ ParseArgsFails
    \/ NvmlInit
    \/ NvmlInitFails
    \/ NvmlDeviceGetCount
    \/ NvmlDeviceGetCountFails
    \/ NvmlDeviceGetHandleByIndex
    \/ NvmlDeviceGetHandleByIndexFails
    \/ GetData
    \/ GetDataFails
    \/ CheckShutdown
    \/ PrintData
    \/ Sleep
    \/ Interrupt
    \/ NvmlShutdown
    \/ NvmlShutdownFails

Spec == Init /\ [][Next]_vars

\* ---- check_shutdown on arbitrary inputs ----
InitEval ==
    /\ pc = "eval"
    /\ argv_shutdown = [kind |-> "empty", sa |-> NoShutArgs]
    /\ shut_args \in ShutArgsSet
    /\ will_shut \in {None} \cup (0 .. MaxClock + MaxDur)
    /\ clock \in 0 .. MaxClock
    /\ data_gpu \in 0 .. MaxPercent
    /\ nvml_ok = FALSE
    /\ exc = "none"
    /\ exit_status = None
    /\ inits = 0
    /\ teardowns = 0
    /\ suspends = 0
    /\ loop_reached = FALSE
    /\ last = NoCall
    /\ prev = NoCall
    /\ armed_at = None
    /\ ep_suspends = 0
    /\ arm_suspends = 0
    /\ fired_prev = FALSE
    /\ tick = NoTick
    /\ first_exc = "none"
    /\ exc_at = "none"
    /\ since_fire = None
    /\ stderr = <<>>

\* one call of check_shutdown on the drawn inputs
Evaluate ==
    /\ pc = "eval"
    /\ \E call_result \in CallResults :
         LET r == check_shutdown(shut_args, data_gpu, will_shut, clock, call_result)
         IN /\ will_shut' = IF r.raised = "none" THEN r.ret ELSE will_shut
            /\ exc' = r.raised
            /\ suspends' = suspends + r.suspends
            /\ last' = CallRecord(shut_args, data_gpu, will_shut, clock, r, FALSE, None)
    /\ pc' = "evaluated"
    /\ UNCHANGED <<argv_shutdown, shut_args, clock, data_gpu, nvml_ok,
                   exit_status, inits, teardowns, loop_reached, prev,
                   armed_at, ep_suspends, arm_suspends, fired_prev,
                   tick, first_exc, exc_at, since_fire, stderr>>

\* a second call with the same usage and time and the state the first returned
EvaluateAgain ==
    /\ pc = "evaluated"
    /\ last.raised = "none"
    /\ \E call_result \in CallResults :
         LET r == check_shutdown(shut_args, data_gpu, will_shut, clock, call_result)
         IN /\ will_shut' = IF r.raised = "none" THEN r.ret ELSE will_shut
            /\ exc' = r.raised
            /\ suspends' = suspends + r.suspends
            /\ last' = CallRecord(shut_args, data_gpu, will_shut, clock, r,
                                  last.suspends > 0, None)
    /\ prev' = last
    /\ pc' = "evaluated2"
    /\ UNCHANGED <<argv_shutdown, shut_args, clock, data_gpu, nvml_ok,
                   exit_status, inits, teardowns, loop_reached,
                   armed_at, ep_suspends, arm_suspends, fired_prev,
                   tick, first_exc, exc_at, since_fire, stderr>>

NextEval == Evaluate \/ EvaluateAgain

SpecEval == InitEval /\ [][NextEval]_vars

\* ---- parse_args on the text of --shutdown ----
\* The argument is kept as the texts of the six fields of SHUT_ARGS_PATTERN,
\* the separators ':', '-' and ',' being in place; a text is a sequence of
\* characters.  Times of day are counted in minutes, durations in seconds.
MaxLen == 3

Digits == {"0", "1", "2", "3", "4", "5", "6", "7", "8", "9"}

\* the characters the field texts are drawn from
Alphabet == {"0", "1", "9", "-"}

Texts(n) == UNION {[1 .. k -> Alphabet] : k \in 0 .. n}

DigitVal(c) ==
    CASE c = "0" -> 0 [] c = "1" -> 1 [] c = "2" -> 2 [] c = "3" -> 3
      [] c = "4" -> 4 [] c = "5" -> 5 [] c = "6" -> 6 [] c = "7" -> 7
      [] c = "8" -> 8 [] c = "9" -> 9

\* int() of a text of decimal digits
RECURSIVE IntOf(_)
IntOf(text) ==
    IF text = <<>> THEN 0
    ELSE 10 * IntOf(SubSeq(text, 1, Len(text) - 1)) + DigitVal(text[Len(text)])

\* \d{lo,hi}
MatchDigits(text, lo, hi) ==
    /\ lo <= Len(text) /\ Len(text) <= hi
    /\ \A i \in 1 .. Len(text) : text[i] \in Digits

\* line 31 and line 32: \d{1,2}:\d{2}
match_time(t) == MatchDigits(t.h, 1, 2) /\ MatchDigits(t.m, 2, 2)

\* line 33: \d+
match_idle_duration(text) == MatchDigits(text, 1, Len(text))

\* mutant of match_idle_percent: up to three digits
match_idle_percent_3(text) == MatchDigits(text, 1, 3)

\* line 34: \d{1,2}$
match_idle_percent(text) == MatchDigits(text, 1, 2)

\* line 61: re.match(SHUT_ARGS_PATTERN, args.shutdown)
match_shut_args(a) ==
    /\ match_time(a.start) /\ match_time(a.end)
    /\ match_idle_duration(a.idle_duration)
    /\ match_idle_percent(a.idle_percent)

\* time(h, m) raises ValueError unless h in 0..23 and m in 0..59
time_ok(t) == IntOf(t.h) <= 23 /\ IntOf(t.m) <= 59

\* lines 67-70: the time of day, in minutes
time_of(t) == 60 * IntOf(t.h) + IntOf(t.m)

\* lines 60-77 for a non-empty argument: "nomatch" (2 is returned),
\* "ValueError" (time() raises) or "ok" with the shut_args dict
parse_shutdown(a) ==
    IF ~match_shut_args(a)
    THEN [status |-> "nomatch", sa |-> NoShutArgs]
    ELSE IF ~(time_ok(a.start) /\ time_ok(a.end))
    THEN [status |-> "ValueError", sa |-> NoShutArgs]
    ELSE [status |-> "ok",
          sa |-> [start |-> time_of(a.start), end |-> time_of(a.end),
                  idle_duration |-> 60 * IntOf(a.idle_duration),
                  idle_percent |-> IntOf(a.idle_percent)]]

\* the texts of the time fields tried
StartTexts == {[h |-> <<"1">>, m |-> <<"3", "0">>],
               [h |-> <<"2", "4">>, m |-> <<"0", "0">>]}

EndTexts == {[h |-> <<"9">>, m |-> <<"0", "0">>],
             [h |-> <<"0">>, m |-> <<"6", "0">>]}

TextArgs == [start : StartTexts, end : EndTexts,
             idle_duration : Texts(MaxLen), idle_percent : Texts(MaxLen)]

InitParse ==
    /\ pc = "parse_text"
    /\ \E a \in TextArgs : argv_shutdown = [kind |-> "text", sa |-> NoShutArgs, text |-> a]
    /\ shut_args = NoShutArgs
    /\ will_shut = None
    /\ clock = 0
    /\ data_gpu = 0
    /\ nvml_ok = FALSE
    /\ exc = "none"
    /\ exit_status = None
    /\ inits = 0
    /\ teardowns = 0
    /\ suspends = 0
    /\ loop_reached = FALSE
    /\ last = NoCall
    /\ prev = NoCall
    /\ armed_at = None
    /\ ep_suspends = 0
    /\ arm_suspends = 0
    /\ fired_prev = FALSE
    /\ tick = NoTick
    /\ first_exc = "none"
    /\ exc_at = "none"
    /\ since_fire = None
    /\ stderr = <<>>

\* lines 60-77 on the drawn text: shut_args on success, the message on stderr
\* and the returned 2 when the pattern does not match, ValueError from time()
ParseText ==
    /\ pc = "parse_text"
    /\ LET r == parse_shutdown(argv_shutdown.text)
       IN /\ shut_args' = r.sa
          /\ exc' = IF r.status = "ValueError" THEN "ValueError" ELSE "none"
          /\ stderr' = IF r.status = "nomatch"
                       THEN Append(stderr, "failed to parse shutdown args")
                       ELSE stderr
          /\ exit_status' = IF r.status = "nomatch" THEN 2 ELSE exit_status
    /\ pc' = "parsed"
    /\ UNCHANGED <<argv_shutdown, will_shut, clock, data_gpu, nvml_ok,
                   inits, teardowns, suspends, loop_reached,
                   last, prev, armed_at, ep_suspends, arm_suspends, fired_prev,
                   tick, first_exc, exc_at, since_fire>>

NextParse == ParseText

SpecParse == InitParse /\ [][NextParse]_vars

\* ---- properties ----
\* the precondition of the last call, in the words of the claims
LastIdle == IsIdle(last.sa, last.gpu_usage)
LastInWindow == InWindow(last.sa, TimeOfDay(last.now_full))
LastInactive == last.ret = None /\ last.suspends = 0

\* C1: a call with gpu_usage > idle_percent returns None and does not invoke
\* the suspend action, whatever the prior state and the current time
C1_BusyReturnsInactive ==
    (last.called /\ last.gpu_usage > last.sa.idle_percent)
        => (last.ret = None /\ last.suspends = 0 /\ will_shut = None)

C1_Witness ==
    /\ pc = "evaluated"
    /\ last.gpu_usage > last.sa.idle_percent
    /\ last.planned # None /\ last.planned <= last.now_full
    /\ LastInWindow
    /\ will_shut = None /\ last.suspends = 0

\* C2: from Inactive, while every tick is idle inside the window, the first
\* tick (at t0 = armed_at) sets Pending(t0 + idle_duration) without suspending,
\* a later tick before t0 + idle_duration keeps that state without suspending,
\* and a tick at or after t0 + idle_duration invokes the suspend action
C2_ArmKeepFire ==
    (last.called /\ LastIdle /\ LastInWindow) =>
        IF last.planned = None
        THEN /\ armed_at = last.now_full
             /\ will_shut = last.now_full + last.sa.idle_duration
             /\ last.suspends = 0
        ELSE /\ armed_at # None
             /\ last.planned = armed_at + last.sa.idle_duration
             /\ (last.now_full < armed_at + last.sa.idle_duration
                   => (will_shut = armed_at + last.sa.idle_duration /\ last.suspends = 0))
             /\ (last.now_full >= armed_at + last.sa.idle_duration
                   => last.suspends = 1)

C2_Witness ==
    /\ pc = "print"
    /\ last.called /\ LastIdle /\ LastInWindow
    /\ last.sa.idle_duration > 0
    /\ armed_at # None
    /\ last.now_full > armed_at + last.sa.idle_duration
    /\ last.suspends = 1

\* C3: a call with state Pending(planned), now >= planned, idle usage and a
\* time inside the window invokes the suspend action exactly once
C3_FiresOnce ==
    (last.called /\ last.planned # None /\ last.now_full >= last.planned
       /\ LastIdle /\ LastInWindow)
        => last.suspends = 1

C3_Witness ==
    /\ pc = "evaluated"
    /\ last.planned # None /\ last.now_full = last.planned
    /\ LastIdle /\ LastInWindow
    /\ last.suspends = 1

\* C4 as stated: no two suspend invocations fall within one idle episode
C4_OncePerEpisode == ep_suspends <= 1

\* C4 amended: the suspend action is invoked at most once per arming of the
\* pending shutdown; two invocations within one idle episode are separated by
\* a tick that arms the pending shutdown anew
C4_OncePerArming == arm_suspends <= 1

C4_Witness ==
    /\ last.called /\ last.suspends = 1
    /\ ep_suspends = 2
    /\ arm_suspends = 1

\* C5 as stated: the call that invokes the suspend action leaves the state
\* Pending with the same planned time, and the next idle tick inside the
\* window fires again
C5_LeftPending ==
    /\ (last.called /\ last.suspends = 1 /\ last.raised = "none")
          => will_shut = last.planned
    /\ (last.called /\ last.after_fire /\ LastIdle /\ LastInWindow)
          => last.suspends = 1

\* C5 amended: the call that invokes the suspend action and returns leaves the
\* state Inactive (None), and the next idle tick inside the window does not
\* fire but sets Pending(now + idle_duration)
C5_LeftInactive ==
    /\ (last.called /\ last.suspends = 1 /\ last.raised = "none")
          => will_shut = None
    /\ (last.called /\ last.after_fire /\ LastIdle /\ LastInWindow)
          => /\ last.planned = None
             /\ last.suspends = 0
             /\ will_shut = last.now_full + last.sa.idle_duration

C5_Witness ==
    /\ pc = "print"
    /\ last.called /\ last.after_fire /\ LastIdle /\ LastInWindow
    /\ last.suspends = 0
    /\ will_shut = last.now_full + last.sa.idle_duration

\* C6: a call with idle usage inside the window, state Pending(planned) and
\* now < planned returns Pending(planned) without the suspend action, and so
\* does a second call with the same inputs
C6_WaitingPre(c) ==
    /\ c.called /\ IsIdle(c.sa, c.gpu_usage) /\ InWindow(c.sa, TimeOfDay(c.now_full))
    /\ c.planned # None /\ c.now_full < c.planned

C6_WaitingIdempotent ==
    /\ C6_WaitingPre(last)
          => (last.ret = last.planned /\ last.suspends = 0 /\ will_shut = last.planned)
    /\ (pc = "evaluated2" /\ C6_WaitingPre(prev))
          => /\ last.planned = prev.ret
             /\ last.ret = prev.planned
             /\ last.suspends = 0 /\ prev.suspends = 0

C6_Witness ==
    /\ pc = "evaluated2"
    /\ C6_WaitingPre(prev)
    /\ last.ret = prev.planned
    /\ will_shut = prev.planned

\* C7: for start < end and idle usage, the call returns Inactive without
\* action exactly when not (start < now < end), the two ends included, for
\* every prior state
C7_NonWrappingStrict ==
    (last.called /\ last.sa.start < last.sa.end /\ LastIdle) =>
        (LastInactive <=>
            ~(last.sa.start < TimeOfDay(last.now_full)
                /\ TimeOfDay(last.now_full) < last.sa.end))

C7_Witness ==
    /\ pc = "evaluated"
    /\ last.sa.start < last.sa.end /\ LastIdle
    /\ TimeOfDay(last.now_full) = last.sa.end
    /\ last.planned # None /\ last.planned <= last.now_full
    /\ LastInactive

\* C8: for start > end and idle usage, the call returns Inactive without
\* action exactly when end < now < start; at now = start, now = end and every
\* other time of day it arms, keeps or fires the pending shutdown
C8_WrappingGap ==
    (last.called /\ last.sa.start > last.sa.end /\ LastIdle) =>
        (LastInactive <=>
            (last.sa.end < TimeOfDay(last.now_full)
                /\ TimeOfDay(last.now_full) < last.sa.start))

C8_Witness ==
    /\ pc = "evaluated"
    /\ last.sa.start > last.sa.end /\ LastIdle
    /\ TimeOfDay(last.now_full) = last.sa.start
    /\ last.planned = None
    /\ will_shut = last.now_full + last.sa.idle_duration

\* C9: after a tick whose sample is busy or whose time is outside the window
\* the pending shutdown is absent and the suspend action was not invoked,
\* also when the prior state was Pending with a planned time already reached
C9_AbsentAfterBusyOrOutside ==
    (last.called /\ (~LastIdle \/ ~LastInWindow))
        => (will_shut = None /\ last.ret = None /\ last.suspends = 0)

C9_Witness ==
    /\ pc = "print"
    /\ last.called /\ LastIdle /\ ~LastInWindow
    /\ last.planned # None /\ last.planned <= last.now_full
    /\ will_shut = None /\ last.suspends = 0

\* C10: in a run that reaches the loop nvmlInit is called exactly once, before
\* the first tick, and nvmlShutdown exactly once, after the last tick, on
\* every exit path; no tick runs after the teardown
C10_InitOnceTeardownOnce ==
    /\ pc \in TickPcs => (inits = 1 /\ nvml_ok /\ teardowns = 0)
    /\ loop_reached => (inits = 1 /\ pc \in TickPcs \cup {"finally", "raised"})
    /\ (loop_reached /\ pc = "finally") => teardowns = 0
    /\ (loop_reached /\ pc = "raised") => teardowns = 1

C10_Witness ==
    /\ loop_reached /\ pc = "raised"
    /\ exc = "OSError"
    /\ inits = 1 /\ teardowns = 1

\* C11: a failure of nvmlDeviceGetHandleByIndex or of get_data ends the loop at
\* that tick: no check_shutdown, no print_data and no sleep in that tick, no
\* further tick, nvmlShutdown runs and the NVMLError itself leaves main
C11_ProviderErrorFatal ==
    (first_exc = "NVMLError" /\ exc_at \in {"handle", "query"}) =>
        /\ pc \in {"finally", "raised"}
        /\ tick = NoTick /\ ~last.called
        /\ exc = "NVMLError"
        /\ (pc = "finally" => teardowns = 0)
        /\ (pc = "raised" => (teardowns = 1 /\ exit_status = 1))

C11_Witness ==
    /\ first_exc = "NVMLError" /\ exc_at = "query"
    /\ will_shut # None
    /\ pc = "raised" /\ teardowns = 1 /\ exc = "NVMLError"

\* a warning or error line other than the announcement of the shutdown
SuspendFailureLogged(c) ==
    \E i \in 1 .. Len(c.log) :
        /\ c.log[i][1] \in {"warning", "error"}
        /\ c.log[i][2] # "been idle long enough, shutting down now"

\* C12: when the policy fires and the suspend command fails (non-zero result
\* or it cannot be started), the failure is logged at warning or error level,
\* the command is not run again in that tick, and the tick and the loop go on
C12_SuspendFailureTolerated ==
    (last.called /\ last.suspends > 0 /\ last.call \in {"nonzero", "oserror"}) =>
        /\ last.suspends = 1
        /\ SuspendFailureLogged(last)
        /\ last.raised = "none" /\ exc \in {"none", "KeyboardInterrupt"}
        /\ (exc = "none" => pc \in TickPcs)

\* C13: a --shutdown value that does not match the pattern is reported and the
\* process ends with exit status 2 before nvmlInit, with no tick, no
\* nvmlShutdown and no suspend
C13_GarbageExitsWithTwo ==
    (argv_shutdown.kind = "garbage" /\ pc # "parse") =>
        /\ pc = "raised"
        /\ stderr # <<>>
        /\ exit_status = 2
        /\ inits = 0 /\ teardowns = 0 /\ ~loop_reached /\ suspends = 0

\* C14: with --shutdown '' check_shutdown is never called, will_shut stays
\* None, the suspend action is never invoked, and each tick logs its sample
C14_EmptyDisables ==
    argv_shutdown.kind = "empty" =>
        /\ pc # "policy"
        /\ tick.evals = 0 /\ ~last.called
        /\ will_shut = None
        /\ suspends = 0 /\ since_fire = None
        /\ (pc = "sleep" => tick.prints = 1)

C14_Witness ==
    /\ argv_shutdown.kind = "empty"
    /\ pc = "sleep"
    /\ clock >= DayLen
    /\ tick.prints = 1 /\ tick.evals = 0
    /\ will_shut = None /\ suspends = 0

\* the text denotes an integer: decimal digits with an optional minus sign
IsNumeral(text) ==
    \/ MatchDigits(text, 1, Len(text))
    \/ (Len(text) >= 2 /\ text[1] = "-" /\ MatchDigits(Tail(text), 1, Len(text) - 1))

\* the integer a numeral denotes
NumeralValue(text) == IF text[1] = "-" THEN 0 - IntOf(Tail(text)) ELSE IntOf(text)

\* the drawn argument has valid times and numerals for duration and percent
ParsedNumerals ==
    /\ pc = "parsed"
    /\ match_time(argv_shutdown.text.start) /\ time_ok(argv_shutdown.text.start)
    /\ match_time(argv_shutdown.text.end) /\ time_ok(argv_shutdown.text.end)
    /\ IsNumeral(argv_shutdown.text.idle_duration)
    /\ IsNumeral(argv_shutdown.text.idle_percent)

AbortMsgs == {"GPU now busy again, shutdown aborted",
              "time now outside range1, shutdown aborted",
              "time now outside range2, shutdown aborted"}

AbortNotified(c) ==
    \E i \in 1 .. Len(c.log) : c.log[i][1] = "info" /\ c.log[i][2] \in AbortMsgs

\* C16: a call logs an info-level abort notice exactly when the prior state
\* was Pending and the sample is busy or the time is outside the window; it
\* then returns Inactive; no notice from Inactive, none when the state stays
\* Pending, none on the call that invokes the suspend action
C16_AbortNotice ==
    last.called =>
        /\ AbortNotified(last)
              <=> (last.planned # None /\ (~LastIdle \/ ~LastInWindow))
        /\ AbortNotified(last) => LastInactive
        /\ (last.planned = None \/ last.ret # None \/ last.suspends > 0)
              => ~AbortNotified(last)

C16_Witness ==
    /\ pc = "evaluated"
    /\ last.planned # None /\ LastIdle /\ ~LastInWindow
    /\ AbortNotified(last)
    /\ will_shut = None

\* C17: nvmlShutdown is called only after nvmlInit succeeded; when nvmlInit
\* fails there is no teardown call, no tick runs and the NVMLError of nvmlInit
\* is what leaves main
C17_TeardownOnlyAfterInit ==
    (first_exc = "NVMLError" /\ exc_at = "init") =>
        /\ teardowns = 0
        /\ ~loop_reached
        /\ pc \in {"finally", "raised"}
        /\ exc = "NVMLError"

\* C18: the call that invokes the suspend action starts from Pending, whose
\* planned time was set by an earlier call at armed_at, at least idle_duration
\* before now, and every tick since then, this one included, was idle inside
\* the window
C18_FireAfterIdleDuration ==
    (last.called /\ last.suspends > 0) =>
        /\ last.planned # None
        /\ armed_at # None
        /\ last.planned = armed_at + last.sa.idle_duration
        /\ armed_at + last.sa.idle_duration <= last.now_full
        /\ LastIdle /\ LastInWindow
        /\ arm_suspends = 1

C18_Witness ==
    /\ pc = "print"
    /\ last.called /\ last.suspends = 1 /\ last.call = "ok"
    /\ last.sa.idle_duration = MaxDur
    /\ last.now_full = armed_at + last.sa.idle_duration

\* C19: the call that invokes the suspend action returns None, and two
\* successive suspend invocations of a run are at least two ticks and at least
\* idle_duration apart
C19_SuspendsApart ==
    /\ (last.called /\ last.suspends > 0 /\ last.raised = "none") => last.ret = None
    /\ (last.called /\ last.suspends > 0 /\ last.prev_fire # None)
          => /\ ~last.after_fire
             /\ last.prev_fire = last.sa.idle_duration

C19_Witness ==
    /\ pc = "print"
    /\ last.called /\ last.suspends = 1
    /\ last.prev_fire # None /\ ~last.after_fire
    /\ last.sa.idle_duration > 0
    /\ will_shut = None

\* C20: for a window with start = end an idle sample is never answered with
\* Inactive for the time of day: from Inactive the call arms, before the
\* planned time it keeps it, from the planned time on it suspends, at every
\* time of day
C20_EqualEndsAlwaysInside ==
    (last.called /\ last.sa.start = last.sa.end /\ LastIdle) =>
        /\ ~LastInactive
        /\ ~AbortNotified(last)
        /\ last.planned = None
              => (last.ret = last.now_full + last.sa.idle_duration /\ last.suspends = 0)
        /\ (last.planned # None /\ last.now_full < last.planned)
              => (last.ret = last.planned /\ last.suspends = 0)
        /\ (last.planned # None /\ last.now_full >= last.planned)
              => last.suspends = 1

C20_Witness ==
    /\ pc = "evaluated"
    /\ last.sa.start = last.sa.end /\ LastIdle
    /\ TimeOfDay(last.now_full) = last.sa.start
    /\ last.planned # None /\ last.planned <= last.now_full
    /\ last.suspends = 1

====
